---- MODULE Spec2Model ----
(***************************************************************************)
(* The cost aggregation engine of cedar/sink:                              *)
(*   - the distro cost fetcher   (src/evergreen/distros.go)                *)
(*   - the report scheduler      (src/operations/cost.go, collectLoop)     *)
(*   - the report collection     (src/unnamed/part_000, CostReport)        *)
(*   - the on-demand file export (src/operations/cost.go, writeCostReport) *)
(*   - the application configuration (src/model/config.go, CedarConfig)    *)
(*   - the cloud billing trees   (src/unnamed/part_000, CloudProvider)     *)
(*   - the cost API requests     (src/evergreen/distros.go, lines 48-139)  *)
(*   - the performance-metrics service (src/rpc/internal/service_test.go)  *)
(* Each subsystem has its own specifications (SpecFetch, SpecFetchLive,    *)
(* SpecPool, SpecSched, SpecStartup, SpecStore, SpecFind, SpecWrite,       *)
(* SpecConfig, SpecLife, SpecBuild, SpecRequest, SpecPerf); the variables  *)
(* of the other subsystems stay at their initial values.                   *)
(***************************************************************************)
EXTENDS Integers, Sequences, FiniteSets, TLC

VARIABLES
    \* ---- distro cost fetcher ----
    distroIDs,    \* the registry's list of distro IDs (getDistroIDs)
    reply,        \* reply[d]: what GetDistroCost answers for d when not disturbed
    fpc,          \* position of the goroutine running GetEvergreenDistrosData
    distros,      \* buffered channel `distros` (closed once filled)
    spawned,      \* workers started so far (wg.Add calls)
    idle,         \* workers waiting at `for distro := range distros`
    exited,       \* workers that returned (wg.Done calls)
    work,         \* work[d]: what has happened to distro d
    got,          \* got[d]: what the lookup of d actually returned
    lookups,      \* lookups[d]: the GetDistroCost calls made for d
    catcher,      \* distros whose lookup error was added to the catcher
    costsClosed,  \* channel `costs` is closed
    distroCosts,  \* the slice the collecting loop appends to
    cancelled,    \* ctx.Err() != nil
    ret,          \* returned list (NilList for nil)
    retErr,       \* returned error: the chain of messages, outermost first (NoErr for nil)
    registryErr,  \* the error c.GetDistros gave (NoErr for nil)
    \* ---- report scheduler (collect) ----
    zone,         \* the process's time.Local: "fixed" offset, or "dst"
    now,          \* wall time elapsed, in minutes
    running,      \* the collect process is up and its interval operation runs
    nextTick,     \* when the interval operation runs the scheduling function next
    starts,       \* how many times the collect command was started
    queueIDs,     \* IDs of the jobs the queue holds or has processed
    accepted,     \* log of the Puts the queue accepted: the ID and the hour
    lastTick,     \* the last run of the scheduling function
    collect,      \* the last invocation of the collect command
    attempts,     \* the hours in which the current collect process called Put
    lastLoad,     \* the last invocation of the load-config command
    \* ---- report collection (CostReport.Save) ----
    reports,      \* the documents of collection buildCostReports
    saveLog,      \* log of the reports whose Save wrote to the store
    lastSaveErr,  \* what the last Save returned ("none" for nil)
    rep,          \* a CostReport value in memory, the receiver of FindID
    lastFind,     \* the last call of CostReport.FindID
    \* ---- application configuration (CedarConfig.Save) ----
    configs,      \* the documents of the configuration collection
    confLog,      \* log of the configurations whose Save wrote to the store
    lastConfErr,  \* what the last CedarConfig.Save returned ("none" for nil)
    conf,         \* a CedarConfig value in memory
    confTrace,    \* the last operation on conf and how conf came to its state
    \* ---- report builder: the cloud billing trees ----
    bpc,          \* position of a report build: "start", "collected", "built", "failed"
    billing,      \* the CloudProvider trees the billing collector returned
    providers,    \* Providers of the built CostReport
    \* ---- cost API requests (GetEvergreenDistrosData, GetDistroCost) ----
    window,       \* the duration GetEvergreenDistrosData was called with, in seconds
    rpc,          \* "start", or "formatted" once line 132 has run
    durParam,     \* the string dur of line 132, character by character
    requests,     \* the per-distro lookup requests sent: distro and duration parameter
    \* ---- performance-metrics service (rpc/internal) ----
    sessionOk,    \* the environment of the service gives a store session
    perfResults,  \* the performance results in the store: ID -> what was attached
    created,      \* the IDs CreateMetricSeries answered with Success
    lastRpc,      \* the last call of the service and what the client got
    \* ---- on-demand export (writeCostReport) ----
    files,        \* the files on disk: name -> content
    lastWrite     \* the last call of writeCostReport

fetchVars == <<distroIDs, reply, fpc, distros, spawned, idle, exited, work, got, lookups,
               catcher, costsClosed, distroCosts, cancelled, ret, retErr, registryErr>>

schedVars == <<zone, now, running, nextTick, starts, queueIDs, accepted, lastTick,
               collect, attempts, lastLoad>>

storeVars == <<reports, saveLog, lastSaveErr, rep, lastFind>>

writeVars == <<files, lastWrite>>

configVars == <<configs, confLog, lastConfErr, conf, confTrace>>

buildVars == <<bpc, billing, providers>>

requestVars == <<window, rpc, durParam, requests>>

perfVars == <<sessionOk, perfResults, created, lastRpc>>

vars == <<fetchVars, schedVars, storeVars, writeVars, configVars, buildVars, requestVars, perfVars>>

notFetch == <<schedVars, storeVars, writeVars, configVars, buildVars, requestVars, perfVars>>

notSched == <<fetchVars, storeVars, writeVars, configVars, buildVars, requestVars, perfVars>>

notStore == <<fetchVars, schedVars, writeVars, configVars, buildVars, requestVars, perfVars>>

notWrite == <<fetchVars, schedVars, storeVars, configVars, buildVars, requestVars, perfVars>>

notConfig == <<fetchVars, schedVars, storeVars, writeVars, buildVars, requestVars, perfVars>>

notBuild == <<fetchVars, schedVars, storeVars, writeVars, configVars, requestVars, perfVars>>

notRequest == <<fetchVars, schedVars, storeVars, writeVars, configVars, buildVars, perfVars>>

notPerf == <<fetchVars, schedVars, storeVars, writeVars, configVars, buildVars, requestVars>>

----------------------------------------------------------------------------
(* Bounds of the model *)

MaxDistros == 2
MaxTime == 1
MaxHours == 3
MaxStarts == 2
MaxSaves == 3
MaxStamp == 4
MaxCost == 2
MaxOvertake == 2

(* Program constants *)

NumWorkers == 16
IntervalMinutes == 30
MinutesPerHour == 60

----------------------------------------------------------------------------
(* Distro cost fetcher: src/evergreen/distros.go *)

\* The nil error; an error is the chain of its messages, outermost first.
NoErr == <<>>

\* A returned []*DistroCost: the nil slice, or a list (possibly empty).
NilList == [isNil |-> TRUE, list |-> <<>>]

List(l) == [isNil |-> FALSE, list |-> l]

\* A *DistroCost as decoded from the API's answer.
DistroCost(d, t, c) == [DistroID |-> d, SumTimeTaken |-> t, SumEstimatedCost |-> c]

TimeValues == -1 .. MaxTime
CostValues == {0, 1}

\* What GetDistroCost can return: (nil, err), (nil, nil) for a JSON null
\* body, or (dc, nil).
ErrReply == [kind |-> "err", t |-> 0, c |-> 0]
NullReply == [kind |-> "null", t |-> 0, c |-> 0]
NoReply == [kind |-> "none", t |-> 0, c |-> 0]
\* No GetDistroCost call was made; errsSeen is the number of errors the catcher
\* held when the (last) call started.
NoLookup == [n |-> 0, errsSeen |-> 0]

Replies == {ErrReply, NullReply} \cup
           {[kind |-> "cost", t |-> t, c |-> c] : t \in TimeValues, c \in CostValues}

NoTick == [at |-> -1, id |-> [prefix |-> "", lastHour |-> [day |-> 0, hour |-> 0, minute |-> 0]], err |-> "none",
           prevErr |-> "first"]

\* The collect command was not invoked yet. cerr is what configure returned,
\* err what the command returned, steps lists the calls the command made, ticks and puts count the runs of the scheduling function and its
\* calls of queue.Put.
NoCollect == [pc |-> "off", ctxDone |-> FALSE, cerr |-> "none", err |-> "none", steps |-> <<>>,
              startedAt |-> 0, looping |-> FALSE, ticks |-> 0, puts |-> 0]

\* The load-config command was not invoked yet.
NoLoad == [called |-> FALSE, cerr |-> "none", err |-> "none", steps |-> <<>>]

NoWrite == [called |-> FALSE, failed |-> "none", wrote |-> FALSE, err |-> "none", before |-> {},
            begin |-> [day |-> 0, minute |-> 0, second |-> 0], duration |-> 0, generated |-> 0]

\* The scheduler, the report collection and the export at rest.
SchedIdle ==
    /\ zone = "fixed"
    /\ now = 0
    /\ running = FALSE
    /\ nextTick = 0
    /\ starts = 0
    /\ queueIDs = {}
    /\ accepted = <<>>
    /\ lastTick = NoTick
    /\ collect = NoCollect
    /\ attempts = {}
    /\ lastLoad = NoLoad

\* A CostReport as &CostReport{} makes it, and no FindID call so far.
FreshReport == [ID |-> "", content |-> "zero", populated |-> FALSE]

NoFind == [called |-> FALSE, id |-> "", outcome |-> "none", err |-> "none"]

\* A CedarConfig as &CedarConfig{} makes it, and no operation on it so far.
FreshConfig == [ID |-> "", content |-> "zero", populated |-> FALSE]

NoTrace == [op |-> "none", err |-> "none", origin |-> "fresh", reached |-> "none",
            before |-> {}]

StoreIdle ==
    /\ reports = {}
    /\ saveLog = <<>>
    /\ lastSaveErr = "none"
    /\ rep = FreshReport
    /\ lastFind = NoFind

WriteIdle ==
    /\ files = {}
    /\ lastWrite = NoWrite

ConfigIdle ==
    /\ configs = {}
    /\ confLog = <<>>
    /\ lastConfErr = "none"
    /\ conf = FreshConfig
    /\ confTrace = NoTrace

RequestIdle ==
    /\ window = 0
    /\ rpc = "start"
    /\ durParam = <<>>
    /\ requests = {}

\* The service with a working store, nothing created and no call made.
NoResponse == [Id |-> "", Success |-> FALSE]

NoRpc == [op |-> "none", id |-> "", resp |-> NoResponse, err |-> FALSE]

PerfIdle ==
    /\ sessionOk = TRUE
    /\ perfResults = <<>>
    /\ created = {}
    /\ lastRpc = NoRpc

BuildIdle ==
    /\ bpc = "start"
    /\ billing = {}
    /\ providers = {}

\* The fetcher at rest, for the specifications of the other subsystems.
FetchIdle ==
    /\ distroIDs = <<>>
    /\ reply = <<>>
    /\ fpc = "entry"
    /\ distros = <<>>
    /\ spawned = 0
    /\ idle = 0
    /\ exited = 0
    /\ work = <<>>
    /\ got = <<>>
    /\ lookups = <<>>
    /\ catcher = {}
    /\ costsClosed = FALSE
    /\ distroCosts = <<>>
    /\ cancelled = FALSE
    /\ ret = NilList
    /\ retErr = NoErr
    /\ registryErr = NoErr

Range(s) == {s[i] : i \in 1 .. Len(s)}

Perms(s) == {p \in [1 .. Len(s) -> Range(s)] : \A i, j \in 1 .. Len(s) : i # j => p[i] # p[j]}

FetchInit ==
    /\ \E n \in 0 .. MaxDistros : distroIDs = [i \in 1 .. n |-> i]
    /\ reply \in [Range(distroIDs) -> Replies]
    /\ fpc = "entry"
    /\ distros = <<>>
    /\ spawned = 0
    /\ idle = 0
    /\ exited = 0
    /\ work = [d \in Range(distroIDs) |-> "queued"]
    /\ got = [d \in Range(distroIDs) |-> NoReply]
    /\ lookups = [d \in Range(distroIDs) |-> NoLookup]
    /\ catcher = {}
    /\ costsClosed = FALSE
    /\ distroCosts = <<>>
    /\ cancelled = FALSE
    /\ ret = NilList
    /\ retErr = NoErr
    /\ registryErr = NoErr
    /\ SchedIdle
    /\ StoreIdle
    /\ WriteIdle
    /\ RequestIdle
    /\ PerfIdle
    /\ ConfigIdle
    /\ BuildIdle

\* The caller's context is cancelled (at any moment before the fetch returns).
Cancel ==
    /\ fpc # "returned"
    /\ ~cancelled
    /\ cancelled' = TRUE
    /\ UNCHANGED <<distroIDs, reply, lookups, registryErr, fpc, distros, spawned, idle, exited, work, got,
                   catcher, costsClosed, distroCosts, ret, retErr>>
    /\ UNCHANGED notFetch

\* errors.Wrap(err, msg): msg in front of the chain of err.
Wrap(err, msg) == <<msg>> \o err

\* The cause of an error: the innermost message of its chain.
Cause(err) == err[Len(err)]

\* What c.GetDistros can fail with.
RegistryErrors == {<<"connection refused">>, <<"unexpected status">>}

\* Line 136: the result of GetEvergreenDistrosData when getDistroIDs failed.
\* (variant: an empty list instead of nil)
EmptyOnRegistryFailure == List(<<>>)

NilOnRegistryFailure == NilList

\* GetEvergreenDistrosData, lines 134-137: c.GetDistros fails, getDistroIDs
\* wraps the error (lines 68-70) and GetEvergreenDistrosData wraps it again.
GetDistroIDsFail ==
    /\ fpc = "entry"
    /\ fpc' = "returned"
    /\ \E e \in RegistryErrors :
          /\ registryErr' = e
          /\ retErr' = Wrap(Wrap(e, "error getting distros ids"),
                            "error in getting distroID in GetEvergreenDistrosData")
    /\ ret' = NilOnRegistryFailure
    /\ UNCHANGED <<distroIDs, reply, lookups, distros, spawned, idle, exited, work, got,
                   catcher, costsClosed, distroCosts, cancelled>>
    /\ UNCHANGED notFetch

\* GetEvergreenDistrosData, line 134: c.getDistroIDs(ctx) returns the list.
GetDistroIDsOk ==
    /\ fpc = "entry"
    /\ fpc' = "dispatch"
    /\ UNCHANGED <<distroIDs, reply, lookups, registryErr, distros, spawned, idle, exited, work, got,
                   catcher, costsClosed, distroCosts, cancelled, ret, retErr>>
    /\ UNCHANGED notFetch

\* getDistroCosts, lines 86-89: the IDs are sent in the order of rand.Perm
\* into the buffered channel, which is then closed.
Dispatch ==
    /\ fpc = "dispatch"
    /\ \E p \in Perms(distroIDs) : distros' = p
    /\ fpc' = "spawn"
    /\ UNCHANGED <<distroIDs, reply, lookups, registryErr, spawned, idle, exited, work, got,
                   catcher, costsClosed, distroCosts, cancelled, ret, retErr>>
    /\ UNCHANGED notFetch

\* getDistroCosts, lines 91-114: the loop starts the 16 workers (wg.Add(1)
\* before each go statement), then the closing goroutine is started and the
\* caller goes on to range over costs.
StartPool ==
    /\ fpc = "spawn"
    /\ spawned' = NumWorkers
    /\ idle' = NumWorkers
    /\ fpc' = "collect"
    /\ UNCHANGED <<distroIDs, reply, lookups, registryErr, distros, exited, work, got,
                   catcher, costsClosed, distroCosts, cancelled, ret, retErr>>
    /\ UNCHANGED notFetch

\* Line 96: the worker stops pulling if ctx.Err() != nil, and only then.
\* (variant: it also stops once a lookup has failed)
CtxErrOrFailure == cancelled \/ catcher # {}

CtxErr == cancelled

\* Line 97: return, and the deferred wg.Done(): the worker is gone.
\* (variant: continue instead of return)
WorkerStays(e) == e

WorkerGone(e) == e + 1

\* Lines 91-93: the IDs are pulled by the 16 goroutines of the pool, so an ID
\* is pulled only when one of them is waiting at the range.
\* (variant: a goroutine of its own for every ID)
GoroutinePerID == TRUE

HasIdleWorker == idle > 0

\* Worker, lines 95-98: receives the next ID from distros; if ctx.Err() != nil
\* the worker returns (the deferred wg.Done() runs), otherwise it starts the
\* lookup of line 100.
WorkerPull ==
    /\ HasIdleWorker
    /\ distros # <<>>
    /\ idle' = idle - 1
    /\ distros' = Tail(distros)
    /\ IF CtxErr
         THEN /\ work' = [work EXCEPT ![Head(distros)] = "dropped"]
              /\ exited' = WorkerGone(exited)
              /\ UNCHANGED lookups
         ELSE /\ work' = [work EXCEPT ![Head(distros)] = "lookup"]
              /\ lookups' = [lookups EXCEPT ![Head(distros)] =
                                [n |-> @.n + 1, errsSeen |-> Cardinality(catcher)]]
              /\ UNCHANGED exited
    /\ UNCHANGED <<distroIDs, reply, fpc, spawned, got, registryErr,
                   catcher, costsClosed, distroCosts, cancelled, ret, retErr>>
    /\ UNCHANGED notFetch

\* Lines 89 and 95: distros is closed once filled, so the range of a worker
\* ends when the channel is empty.
\* (variant: distros is never closed, the range waits for more)
RangeWaits == FALSE

RangeEnds == distros = <<>>

\* Worker, lines 95 and 94: distros is closed and drained, the range ends and
\* the deferred wg.Done() runs.
WorkerDrained ==
    /\ idle > 0
    /\ RangeEnds
    /\ idle' = idle - 1
    /\ exited' = exited + 1
    /\ UNCHANGED <<distroIDs, reply, lookups, registryErr, fpc, distros, spawned, work, got,
                   catcher, costsClosed, distroCosts, cancelled, ret, retErr>>
    /\ UNCHANGED notFetch

\* What c.GetDistroCost(ctx, d, st, dur) can return: the API's answer, or an
\* error of the request when its context is cancelled.
LookupOutcomes(d) == {reply[d]} \cup (IF cancelled THEN {ErrReply} ELSE {})

\* Line 101: catcher.Add(errors.Wrap(err, ...)); a nil error adds nothing.
\* (variant: the error is dropped instead of added)
CatcherAddNever(c, d, r) == c

CatcherAdd(c, d, r) == IF r.kind = "err" THEN c \cup {d} ELSE c

\* Worker, lines 100-104: the lookup returns; its error goes to the catcher;
\* with dc == nil the worker goes back to the range, otherwise it blocks on
\* costs <- dc.
LookupReturn(d) ==
    /\ work[d] = "lookup"
    /\ \E r \in LookupOutcomes(d) :
          /\ got' = [got EXCEPT ![d] = r]
          /\ catcher' = CatcherAdd(catcher, d, r)
          /\ IF r.kind # "cost"
               THEN /\ work' = [work EXCEPT ![d] = "skipped"]
                    /\ idle' = idle + 1
               ELSE /\ work' = [work EXCEPT ![d] = "send"]
                    /\ UNCHANGED idle
    /\ UNCHANGED <<distroIDs, reply, lookups, registryErr, fpc, distros, spawned, exited,
                   costsClosed, distroCosts, cancelled, ret, retErr>>
    /\ UNCHANGED notFetch

\* Lines 117-119: only records with SumTimeTaken > 0 are appended.
\* (variant: the comparison is >= instead of >)
KeepAlsoZero(l, dc) == IF dc.SumTimeTaken >= 0 THEN Append(l, dc) ELSE l

Keep(l, dc) == IF dc.SumTimeTaken > 0 THEN Append(l, dc) ELSE l

\* Lines 106 and 116-120: the unbuffered send costs <- dc meets the receive
\* of the collecting loop; the worker goes back to the range.
CollectRecv(d) ==
    /\ fpc = "collect"
    /\ ~costsClosed
    /\ work[d] = "send"
    /\ work' = [work EXCEPT ![d] = "sent"]
    /\ idle' = idle + 1
    /\ distroCosts' = Keep(distroCosts, DistroCost(d, got[d].t, got[d].c))
    /\ UNCHANGED <<distroIDs, reply, lookups, registryErr, fpc, distros, spawned, exited, got,
                   catcher, costsClosed, cancelled, ret, retErr>>
    /\ UNCHANGED notFetch

\* Line 112: wg.Wait() returns once every worker has called wg.Done().
\* (variant: wg.Add inside the goroutine, so that Wait does not wait)
WaitGroupDoneAtOnce == TRUE

WaitGroupDone == exited = spawned

\* Lines 111-114: the closing goroutine closes costs after wg.Wait().
CloseCosts ==
    /\ fpc = "collect"
    /\ ~costsClosed
    /\ WaitGroupDone
    /\ costsClosed' = TRUE
    /\ UNCHANGED <<distroIDs, reply, lookups, registryErr, fpc, distros, spawned, idle, exited, work, got,
                   catcher, distroCosts, cancelled, ret, retErr>>
    /\ UNCHANGED notFetch

\* Line 122: catcher.HasErrors().
HasErrors == catcher # {}

\* Line 123: catcher.Resolve(), the errors of the catcher as one error.
Resolve == <<"error when getting distro cost data from Evergreen">>

\* Lines 116, 122-126 and 139-144: the range over costs ends when the channel
\* is closed; the result is (nil, err) if the catcher holds an error.
Return ==
    /\ fpc = "collect"
    /\ costsClosed
    /\ fpc' = "returned"
    /\ IF HasErrors
         THEN /\ ret' = NilList
              /\ retErr' = Wrap(Resolve,
                                "error in getting distro costs in GetEvergreenDistrosData")
         ELSE /\ ret' = List(distroCosts)
              /\ retErr' = NoErr
    /\ UNCHANGED <<distroIDs, reply, lookups, registryErr, distros, spawned, idle, exited, work, got,
                   catcher, costsClosed, distroCosts, cancelled>>
    /\ UNCHANGED notFetch

FetchNext ==
    \/ Cancel
    \/ GetDistroIDsFail
    \/ GetDistroIDsOk
    \/ Dispatch
    \/ StartPool
    \/ WorkerPull
    \/ WorkerDrained
    \/ \E d \in Range(distroIDs) : LookupReturn(d)
    \/ \E d \in Range(distroIDs) : CollectRecv(d)
    \/ CloseCosts
    \/ Return

SpecFetch == FetchInit /\ [][FetchNext]_vars

\* The steps of the fetch itself: all but the cancellation by the caller.
FetchProgress ==
    \/ GetDistroIDsFail
    \/ GetDistroIDsOk
    \/ Dispatch
    \/ StartPool
    \/ WorkerPull
    \/ WorkerDrained
    \/ \E d \in Range(distroIDs) : LookupReturn(d)
    \/ \E d \in Range(distroIDs) : CollectRecv(d)
    \/ CloseCosts
    \/ Return

\* For termination the values of a cost record do not matter: one cost
\* record stands for all.
LiveInit ==
    /\ FetchInit
    /\ \A d \in Range(distroIDs) :
          reply[d].kind = "cost" => (reply[d].t = MaxTime /\ reply[d].c = 1)

\* The fetch under a fair scheduler: a goroutine that can take a step takes
\* one eventually, and every lookup returns.
SpecFetchLive == LiveInit /\ [][FetchNext]_vars /\ WF_vars(FetchProgress)

\* A fetch of a list with one ID more than the pool has workers, from the
\* moment the IDs are in the channel (in the order rand.Perm gave them); the
\* context is not cancelled, and the API answers every lookup with a JSON
\* null, serving the requests nearly in the order in which they were made: an
\* answer overtakes at most MaxOvertake older requests.
PoolInit ==
    /\ distroIDs = [i \in 1 .. NumWorkers + 1 |-> i]
    /\ reply = [d \in Range(distroIDs) |-> NullReply]
    /\ fpc = "spawn"
    /\ distros = distroIDs
    /\ spawned = 0
    /\ idle = 0
    /\ exited = 0
    /\ work = [d \in Range(distroIDs) |-> "queued"]
    /\ got = [d \in Range(distroIDs) |-> NoReply]
    /\ lookups = [d \in Range(distroIDs) |-> NoLookup]
    /\ catcher = {}
    /\ costsClosed = FALSE
    /\ distroCosts = <<>>
    /\ cancelled = FALSE
    /\ ret = NilList
    /\ retErr = NoErr
    /\ registryErr = NoErr
    /\ SchedIdle
    /\ StoreIdle
    /\ WriteIdle
    /\ RequestIdle
    /\ PerfIdle
    /\ ConfigIdle
    /\ BuildIdle

\* One of the lookups that were started first among those in flight returns.
OldestLookupReturn(d) ==
    /\ Cardinality({e \in Range(distroIDs) : work[e] = "lookup" /\ e < d}) <= MaxOvertake
    /\ LookupReturn(d)

PoolNext ==
    \/ StartPool
    \/ WorkerPull
    \/ WorkerDrained
    \/ \E d \in Range(distroIDs) : OldestLookupReturn(d)
    \/ CloseCosts
    \/ Return

SpecPool == PoolInit /\ [][PoolNext]_vars

----------------------------------------------------------------------------
(* Claims about the distro cost fetcher *)

Returned == fpc = "returned"

\* getDistroCosts was entered (the registry answered) and has returned.
CostsReturned == Returned /\ spawned = NumWorkers

RetIDs == {ret.list[i].DistroID : i \in 1 .. Len(ret.list)}

\* The distros whose usage over the window, as the API reports it, is > 0.
PositiveUsage == {d \in Range(distroIDs) : reply[d].kind = "cost" /\ reply[d].t > 0}

\* C1: all-or-nothing fetch. If at least one per-distro lookup returned an
\* error, the fetch returns the nil list and a non-nil error, whatever the other
\* lookups produced.
C1_AllOrNothing ==
    (Returned /\ \E d \in Range(distroIDs) : got[d].kind = "err")
        => (ret = NilList /\ retErr # NoErr)

\* C1 witness: the fetch returned after one lookup failed and another one
\* delivered a positive-usage record that the collecting loop had kept.
C1_Witness ==
    /\ Returned
    /\ ~cancelled
    /\ \E d \in Range(distroIDs) : got[d].kind = "err"
    /\ \E d \in Range(distroIDs) : work[d] = "sent" /\ got[d].t > 0
    /\ distroCosts # <<>>
    /\ ret = NilList

\* C2 (as claimed): fetch completeness. Every completed fetch returns an error
\* or a list holding a record for every registry distro with positive usage.
C2_FetchComplete ==
    Returned => (retErr # NoErr \/ (~ret.isNil /\ PositiveUsage \subseteq RetIDs))

\* C3: zero-usage filtering. No record of the returned list has a summed
\* time-taken that is not strictly positive, and a distro whose lookup gave
\* such a record is not in the list, whatever its other fields hold.
C3_ZeroUsageFiltered ==
    Returned =>
        /\ \A i \in 1 .. Len(ret.list) : ret.list[i].SumTimeTaken > 0
        /\ \A d \in Range(distroIDs) :
              (got[d].kind = "cost" /\ got[d].t <= 0) => d \notin RetIDs

\* C3 witness: a record with zero time and a nonzero estimated cost went
\* through the collecting loop and is absent from the non-empty returned list.
C3_Witness ==
    /\ Returned
    /\ ~ret.isNil
    /\ ret.list # <<>>
    /\ \E d \in Range(distroIDs) :
          work[d] = "sent" /\ got[d].t = 0 /\ got[d].c = 1 /\ d \notin RetIDs

\* C4 (as claimed): set determinism. With the per-distro lookup outcomes fixed
\* (every lookup made got the API's answer), the result depends on the inputs
\* alone: nil if some answer is an error, else exactly the positive-usage set.
C4_SetDeterministic ==
    (CostsReturned /\ \A d \in Range(distroIDs) : got[d] \in {NoReply, reply[d]})
        => IF \E d \in Range(distroIDs) : reply[d].kind = "err"
             THEN ret = NilList
             ELSE ~ret.isNil /\ RetIDs = PositiveUsage

\* C10: the pool drains before the fetch returns. When getDistroCosts has
\* returned, all 16 workers have exited and no lookup or send is in flight.
C10_PoolDrained ==
    CostsReturned =>
        /\ exited = NumWorkers
        /\ idle = 0
        /\ \A d \in Range(distroIDs) : work[d] \notin {"lookup", "send"}

\* C10 witness: a fetch that was cancelled on the way has returned with every
\* worker gone, after at least one record was delivered.
C10_Witness ==
    /\ CostsReturned
    /\ cancelled
    /\ exited = NumWorkers
    /\ \E d \in Range(distroIDs) : work[d] = "sent"
    /\ \E d \in Range(distroIDs) : work[d] = "dropped"

-----------------------------------------------------------------------\* C11: an error does not stop the pool. If the context is never cancelled,
\* every distro ID of the list has been looked up exactly once when
\* getDistroCosts returns, also the IDs pulled after another lookup failed.
C11_ErrorDoesNotStopPool ==
    (CostsReturned /\ ~cancelled) =>
        \A d \in Range(distroIDs) : lookups[d].n = 1 /\ got[d] = reply[d]

\* C11 witness: the fetch returned, never cancelled, and one ID was looked up
\* by a lookup that started after the catcher already held an error.
C11_Witness ==
    /\ CostsReturned
    /\ ~cancelled
    /\ \E d \in Range(distroIDs) : lookups[d].n = 1 /\ lookups[d].errsSeen > 0

Dropped == {d \in Range(distroIDs) : work[d] = "dropped"}

InFlight == {d \in Range(distroIDs) : work[d] \in {"lookup", "send"}}

\* C12: cooperative cancellation. For an ID pulled by a worker that then saw
\* the cancelled context there is no lookup, no result and no error, and that
\* worker has exited (it pulls nothing more); a lookup in flight when the
\* context is cancelled is carried through by its worker.
C12_CooperativeCancel ==
    /\ \A d \in Dropped :
          /\ lookups[d].n = 0
          /\ got[d] = NoReply
          /\ d \notin catcher
          /\ \A i \in 1 .. Len(distroCosts) : distroCosts[i].DistroID # d
    /\ Cardinality(Dropped) <= exited
    /\ idle + exited + Cardinality(InFlight) = spawned
    /\ \A d \in Range(distroIDs) :
          work[d] \in {"send", "sent", "skipped"} => (lookups[d].n = 1 /\ got[d] # NoReply)

\* C12 witness: one ID was dropped by a worker that saw the cancellation,
\* while a lookup that was in flight at the cancellation came back (with the
\* error of its cancelled request) and was recorded.
C12_Witness ==
    /\ cancelled
    /\ Dropped # {}
    /\ \E d \in Range(distroIDs) :
          reply[d].kind = "cost" /\ got[d] = ErrReply /\ d \in catcher

\* C16: registry failure is fatal to the fetch. If c.GetDistros failed,
\* GetEvergreenDistrosData returns a nil list and a non-nil error whose chain
\* ends in the registry's error, no worker was started and no per-distro
\* lookup was made.
C16_RegistryFailureFatal ==
    registryErr # NoErr =>
        /\ Returned
        /\ ret = NilList
        /\ retErr # NoErr
        /\ Len(retErr) > 1
        /\ <<Cause(retErr)>> = registryErr
        /\ spawned = 0
        /\ \A d \in Range(distroIDs) :
              lookups[d].n = 0 /\ got[d] = NoReply /\ work[d] = "queued"

\* C16 witness: the registry failed although it had distros to list, and the
\* fetch has returned.
C16_Witness ==
    /\ registryErr # NoErr
    /\ Returned
    /\ distroIDs # <<>>

\* The lookups in flight: GetDistroCost was called and has not returned.
LookingUp == {d \in Range(distroIDs) : work[d] = "lookup"}

\* C22: bounded concurrency without duplicate work. At every moment at most
\* 16 lookups are in flight; an ID that a worker has pulled is no longer in
\* the channel, so no other worker pulls it; no ID is looked up twice and
\* only IDs of the input list are looked up.
C22_BoundedPool ==
    /\ Cardinality(LookingUp) <= NumWorkers
    /\ idle >= 0
    /\ Cardinality(InFlight) + idle + exited = spawned
    /\ \A i, j \in 1 .. Len(distros) : distros[i] = distros[j] => i = j
    /\ \A d \in Range(distroIDs) :
          /\ lookups[d].n <= 1
          /\ work[d] # "queued" => d \notin Range(distros)
    /\ DOMAIN lookups = Range(distroIDs)

\* C22 witness: 16 lookups are in flight, no worker is idle, and the 17th ID
\* waits in the channel.
C22_Witness ==
    /\ Cardinality(LookingUp) = NumWorkers
    /\ idle = 0
    /\ distros # <<>>
    /\ \A d \in LookingUp : lookups[d].n = 1

\* C23: the fetch terminates without deadlock or channel misuse. Provided
\* every lookup returns, the fetch returns, for every list (also the empty
\* one) and whenever the context is cancelled; the IDs dispatched fit into
\* the buffer of distros; costs is closed only when every worker is gone, so
\* no worker is left sending and none sends after the close; and costs, once
\* closed, is not closed again.
C23_Terminates ==
    /\ <>Returned
    /\ [](Len(distros) <= Len(distroIDs))
    /\ [](costsClosed => (exited = spawned /\ InFlight = {}))
    /\ [][costsClosed => ~ENABLED CloseCosts]_vars

\* C23 witness: the fetch has returned although the context was cancelled
\* while it ran: one record went through costs, another ID was dropped.
C23_Witness ==
    /\ Returned
    /\ costsClosed
    /\ cancelled
    /\ \E d \in Range(distroIDs) : work[d] = "sent"
    /\ Dropped # {}

-----
(* Report scheduler: src/operations/cost.go, collectLoop *)

\* The clock of the model advances in steps of half the interval.
ClockStep == IntervalMinutes \div 2

Horizon == MaxHours * MinutesPerHour

\* time.Local. A "fixed" zone keeps one offset; in a "dst" zone the clocks are
\* set back by one hour at instant DstEnd (the end of daylight saving time).
DstEnd == 2 * MinutesPerHour

ZoneOffset(z, t) == IF z = "dst" /\ t < DstEnd THEN MinutesPerHour ELSE 0

\* The reading of the local wall clock at instant t, in minutes.
WallClock(z, t) == t + ZoneOffset(z, t)

\* Line 98: time.Date(t.Year(), t.Month(), t.Day(), t.Hour(), 0, 0, 0,
\* time.Local), where t is the time of the tick: the date and hour fields of
\* the local wall clock, minutes and below set to zero.
\* (variant: the minutes are kept)
LastHourUntruncated(z, t) ==
    [day |-> WallClock(z, t) \div (24 * MinutesPerHour),
     hour |-> (WallClock(z, t) \div MinutesPerHour) % 24,
     minute |-> WallClock(z, t) % MinutesPerHour]

LastHour(z, t) ==
    [day |-> WallClock(z, t) \div (24 * MinutesPerHour),
     hour |-> (WallClock(z, t) \div MinutesPerHour) % 24,
     minute |-> 0]

\* Line 100: id := fmt.Sprintf("brc-%s", lastHour).
\* (variant: the ID names the hour before the tick)
JobIDOfHourBefore(z, t) == [prefix |-> "brc-", lastHour |-> LastHour(z, t - MinutesPerHour)]

JobID(z, t) == [prefix |-> "brc-", lastHour |-> LastHour(z, t)]

\* The hour of real time that instant t lies in.
HourOf(t) == t \div MinutesPerHour

\* queue.Put(j): a queue that deduplicates by job ID rejects an ID it holds or
\* has processed; a Put may also fail for a reason of the queue's own.
PutOutcomes(ids, id) == IF id \in ids THEN {"duplicate"} ELSE {"none", "put failed"}

\* configure(env, numWorkers, localQueue, mongodbURI, bucket, dbName): an
\* empty connection string and a worker count below one are errors.
ValidURI == "mongodb://localhost:27017"

URIs == {"", ValidURI}

Configure(numWorkers, mongodbURI) ==
    IF mongodbURI = "" THEN "problem setting up config: mongodb"
    ELSE IF numWorkers < 1 THEN "problem setting up config: workers"
    ELSE "none"

\* Lines 48 and 81: both commands configure two workers.
CommandWorkers == 1 + 1

\* Lines 48-50 and 81-83: if err != nil { return errors.WithStack(err) }.
\* (variant: the error is not checked)
ReturnsOnNever(err) == FALSE

ReturnsOn(err) == err # "none"

\* The calls load-config makes, lines 48-59: configure, then LoadCostConfig,
\* then conf.Save; the first error ends the command.
LoadConfigSteps(cerr, lerr, serr) ==
    IF ReturnsOn(cerr) THEN <<"configure">>
    ELSE IF lerr # "none" THEN <<"configure", "LoadCostConfig">>
    ELSE <<"configure", "LoadCostConfig", "Save">>

LoadConfigErr(cerr, lerr, serr) ==
    IF ReturnsOn(cerr) THEN cerr
    ELSE IF lerr # "none" THEN lerr
    ELSE serr

\* The calls collect makes, lines 81-97: configure, env.GetQueue, q.Start and
\* amboy.IntervalQueueOperation; the first error ends the command.
CollectSteps(cerr, failure) ==
    IF ReturnsOn(cerr) THEN <<"configure">>
    ELSE IF failure = "problem getting queue" THEN <<"configure", "GetQueue">>
    ELSE IF failure = "problem starting queue" THEN <<"configure", "GetQueue", "Start">>
    ELSE <<"configure", "GetQueue", "Start", "IntervalQueueOperation">>

CollectErr(cerr, failure) == IF ReturnsOn(cerr) THEN cerr ELSE failure

\* Lines 119-124: after IntervalQueueOperation the command waits in a select
\* whose only case is <-ctx.Done().
\* (variant: no select, the command returns)
AfterIntervalReturn == "returned"

AfterInterval == "blocked"

\* amboy.IntervalQueueOperation(..., true, op), line 97: with the flag set,
\* an error of op is logged and the operation goes on with its next run.
\* (variant: an error of op ends the operation)
ContinuesUntilError(err) == err = "none"

ContinuesAfter(err) == TRUE

\* Line 97: the operation runs op every 30 minutes.
NextRun(t) == t + IntervalMinutes

SchedInit ==
    /\ zone \in {"fixed", "dst"}
    /\ now = 0
    /\ running = FALSE
    /\ nextTick = 0
    /\ starts = 0
    /\ queueIDs = {}
    /\ accepted = <<>>
    /\ lastTick = NoTick
    /\ collect = NoCollect
    /\ attempts = {}
    /\ lastLoad = NoLoad
    /\ FetchIdle
    /\ StoreIdle
    /\ WriteIdle
    /\ RequestIdle
    /\ PerfIdle
    /\ ConfigIdle
    /\ BuildIdle

\* Time passes; a due run of the scheduling function happens first.
AdvanceClock ==
    /\ now + ClockStep <= Horizon
    /\ (running /\ collect.looping) => now < nextTick
    /\ now' = now + ClockStep
    /\ UNCHANGED <<zone, running, nextTick, starts, queueIDs, accepted, lastTick,
                   collect, attempts, lastLoad>>
    /\ UNCHANGED notSched

\* load-config, lines 42-65, invoked once, at any moment. The command shares
\* no state with collect, so one invocation shows all it can do.
LoadConfig ==
    /\ ~lastLoad.called
    /\ \E uri \in URIs, lerr \in {"none", "cannot read file"}, serr \in {"none", "cannot save"} :
          lastLoad' = [called |-> TRUE,
                       cerr |-> Configure(CommandWorkers, uri),
                       err |-> LoadConfigErr(Configure(CommandWorkers, uri), lerr, serr),
                       steps |-> LoadConfigSteps(Configure(CommandWorkers, uri), lerr, serr)]
    /\ UNCHANGED <<zone, now, running, nextTick, starts, queueIDs, accepted, lastTick,
                   collect, attempts>>
    /\ UNCHANGED notSched

\* collect, lines 74-120: the command is started (for the first time, or
\* again after the process ended). If the setup fails the command returns the
\* error and the deferred cancel() runs; otherwise the interval operation
\* starts at time.Now() and the command waits at line 120.
StartCollect ==
    /\ ~running
    /\ starts < MaxStarts
    /\ starts' = starts + 1
    /\ \E uri \in URIs, failure \in {"none", "problem getting queue", "problem starting queue"} :
          LET steps == CollectSteps(Configure(CommandWorkers, uri), failure)
              err == CollectErr(Configure(CommandWorkers, uri), failure)
              started == steps[Len(steps)] = "IntervalQueueOperation"
          IN  /\ running' = started
              /\ collect' = [pc |-> IF started THEN AfterInterval ELSE "returned",
                             ctxDone |-> ~started,
                             cerr |-> Configure(CommandWorkers, uri),
                             err |-> err,
                             steps |-> steps,
                             startedAt |-> now,
                             looping |-> started,
                             ticks |-> 0,
                             puts |-> 0]
              /\ nextTick' = IF started THEN now ELSE nextTick
    /\ attempts' = {}
    /\ UNCHANGED <<zone, now, queueIDs, accepted, lastTick, lastLoad>>
    /\ UNCHANGED notSched

\* The collect process ends (it is killed: line 120 blocks for good); the
\* queue's record of its jobs outlives it.
StopCollect ==
    /\ running
    /\ running' = FALSE
    /\ collect' = [collect EXCEPT !.pc = "killed", !.looping = FALSE]
    /\ UNCHANGED <<zone, now, nextTick, starts, queueIDs, accepted, lastTick, attempts, lastLoad>>
    /\ UNCHANGED notSched

\* Lines 97-117: one run of the scheduling function, every 30 minutes: the job
\* for the current hour is built and Put; an error of Put is logged and
\* returned, and the interval operation goes on to its next run.
Tick ==
    /\ running
    /\ collect.looping
    /\ now >= nextTick
    /\ \E err \in PutOutcomes(queueIDs, JobID(zone, now)) :
          /\ lastTick' = [at |-> now, id |-> JobID(zone, now), err |-> err,
                          prevErr |-> IF collect.ticks = 0 THEN "first" ELSE lastTick.err]
          /\ IF err = "none"
               THEN /\ queueIDs' = queueIDs \cup {JobID(zone, now)}
                    /\ accepted' = Append(accepted, [id |-> JobID(zone, now), hour |-> HourOf(now)])
               ELSE UNCHANGED <<queueIDs, accepted>>
          /\ collect' = [collect EXCEPT !.looping = ContinuesAfter(err),
                                        !.ticks = @ + 1,
                                        !.puts = @ + 1]
    /\ attempts' = attempts \cup {HourOf(now)}
    /\ nextTick' = NextRun(now)
    /\ UNCHANGED <<zone, now, running, starts, lastLoad>>
    /\ UNCHANGED notSched

SchedNext ==
    \/ AdvanceClock
    \/ StartCollect
    \/ StopCollect
    \/ Tick

SpecSched == SchedInit /\ [][SchedNext]_vars

\* The commands of the command line: load-config and collect.
StartupNext ==
    \/ LoadConfig
    \/ SchedNext

SpecStartup == SchedInit /\ [][StartupNext]_vars

-----
(* Claims about the scheduler *)

\* C5: at most one report per hour bucket. The queue has accepted at most one
\* build-cost-report job for each hour, whatever the ticks and restarts.
C5_OnePerHour ==
    \A i, j \in 1 .. Len(accepted) : accepted[i].hour = accepted[j].hour => i = j

\* C5 witness: after a restart, a tick in an hour whose job the queue had
\* accepted before was rejected as a duplicate.
C5_Witness ==
    /\ starts = 2
    /\ lastTick.err = "duplicate"
    /\ \E i \in 1 .. Len(accepted) :
          accepted[i].hour = HourOf(lastTick.at) /\ accepted[i].id = lastTick.id
    /\ Len(accepted) >= 2

\* C6 (as claimed): the job ID identifies the hour bucket. The ID of a tick is
\* "brc-" and the tick time truncated to the hour in local time; two ticks in
\* the same hour have the same ID and two ticks in different hours have
\* different IDs.
C6_IdentifiesHour ==
    lastTick # NoTick =>
        /\ lastTick.id.prefix = "brc-"
        /\ lastTick.id.lastHour.minute = 0
        /\ \A i \in 1 .. Len(accepted) :
              (accepted[i].hour = HourOf(lastTick.at)) <=> (accepted[i].id = lastTick.id)

-----------------------------------------------------------------------\* C13: a failed enqueue does not stop the scheduler. While the collect
\* process runs, whatever queue.Put returned on earlier ticks, the interval
\* operation is still looping, its next run is due at most one interval after
\* the last one, and every run so far has called Put.
C13_FailedPutDoesNotStop ==
    running =>
        /\ collect.looping
        /\ now <= nextTick
        /\ collect.ticks > 0 => nextTick = lastTick.at + IntervalMinutes
        /\ collect.puts = collect.ticks

\* C13 witness: in one run of collect, the tick after a tick whose Put
\* failed has submitted its job, and the process is still running.
C13_Witness ==
    /\ running
    /\ collect.ticks >= 2
    /\ lastTick.prevErr = "put failed"
    /\ lastTick.err = "none"

\* The start, in minutes of the local wall clock, of the hour bucket a job ID
\* names.
BucketStart(id) == (id.lastHour.day * 24 + id.lastHour.hour) * MinutesPerHour + id.lastHour.minute

\* The hours that lie wholly within the current run of collect so far.
FullHours == {h \in 0 .. MaxHours :
                 collect.startedAt <= h * MinutesPerHour /\ (h + 1) * MinutesPerHour <= now}

\* C14: each tick submits exactly one job for the current hour bucket. Every
\* run of the scheduling function calls Put once, the job's ID is the bucket
\* of the local hour that contains the tick, and every full hour during which
\* collect has been running has had at least one Put.
C14_OnePutPerTick ==
    /\ collect.puts = collect.ticks
    /\ lastTick # NoTick =>
          /\ lastTick.id.prefix = "brc-"
          /\ lastTick.id.lastHour.minute = 0
          /\ BucketStart(lastTick.id) <= WallClock(zone, lastTick.at)
          /\ WallClock(zone, lastTick.at) < BucketStart(lastTick.id) + MinutesPerHour
    /\ running => FullHours \subseteq attempts

\* C14 witness: collect was started in the middle of an hour and has run
\* through a full hour since, in which it called Put.
C14_Witness ==
    /\ running
    /\ collect.startedAt % MinutesPerHour # 0
    /\ FullHours # {}
    /\ collect.ticks >= 3

C19_ConfigureErrorFatal ==
    /\ lastLoad.cerr # "none" =>
          (lastLoad.err = lastLoad.cerr /\ lastLoad.steps = <<"configure">>)
    /\ collect.cerr # "none" =>
          /\ collect.err = collect.cerr
          /\ collect.steps = <<"configure">>
          /\ collect.pc = "returned"
          /\ ~running
          /\ collect.ticks = 0
          /\ collect.puts = 0
          /\ attempts = {}

\* C19 witness: both commands were invoked with an empty connection string;
\* time has passed since collect returned its error.
C19_Witness ==
    /\ lastLoad.called
    /\ lastLoad.cerr # "none"
    /\ collect.cerr # "none"
    /\ collect.startedAt < now

-----
(* Report collection: src/unnamed/part_000, CostReport *)

ReportIDs == {"r1", "r2"}

\* The exported fields of a CostReport other than ID (Report, Evergreen,
\* Providers): all zero values, or one of two filled-in values.
Contents == {"zero", "A", "B"}

\* A CostReport value: ID, exported fields, and the populated flag.
CostReports == [ID : ReportIDs, content : Contents, populated : BOOLEAN]

\* The document Save sends: the bson-tagged fields; env and populated are
\* unexported and not stored.
Doc(r) == [id |-> r.ID, content |-> r.content]

\* Line 65: C(costReportCollection).UpsertId(r.ID, r) replaces the document
\* with that _id, or inserts it.
\* (variant: an insert that leaves the old document in place)
InsertDoc(coll, id, doc) == coll \cup {doc}

UpsertId(coll, id, doc) == {x \in coll : x.id # id} \cup {doc}

StoreInit ==
    /\ reports = {}
    /\ saveLog = <<>>
    /\ lastSaveErr = "none"
    /\ rep = FreshReport
    /\ lastFind = NoFind
    /\ FetchIdle
    /\ SchedIdle
    /\ WriteIdle
    /\ RequestIdle
    /\ PerfIdle
    /\ ConfigIdle
    /\ BuildIdle

\* CostReport.Save, lines 57-77: no check of the report comes before the
\* upsert; the session may fail (line 60) and the upsert may fail (line 76).
Save(r) ==
    /\ Len(saveLog) < MaxSaves
    /\ \E err \in {"none", "session", "problem saving cost reporting configuration"} :
          /\ lastSaveErr' = err
          /\ IF err = "none"
               THEN /\ reports' = UpsertId(reports, r.ID, Doc(r))
                    /\ saveLog' = Append(saveLog, r)
               ELSE UNCHANGED <<reports, saveLog>>
    /\ UNCHANGED <<rep, lastFind>>
    /\ UNCHANGED notStore

StoreNext == \E r \in CostReports : Save(r)

SpecStore == StoreInit /\ [][StoreNext]_vars

\* CostReport.IsNil, line 36: the populated flag as it is.
ReportIsNil(r) == r.populated

\* The collection as earlier Saves can have left it: at most one document
\* under an ID.
ReportCollections ==
    {S \in SUBSET [id : ReportIDs, content : Contents] :
        \A x, y \in S : x.id = y.id => x = y}

\* What can happen to FindID(id): no session (line 39), the store has no
\* such document (line 46), the store fails otherwise (line 48), or the
\* document is loaded into the report.
FindOutcomes(coll, id) ==
    {"session", "error"} \cup
    (IF \E x \in coll : x.id = id THEN {"found"} ELSE {"notfound"})

\* What FindID returns: the error made at line 49 is not returned, the
\* function goes on to line 51 and returns nil at line 53.
FindIDError(outcome) ==
    CASE outcome = "session" -> "session"
      [] outcome = "notfound" -> "could not find cost reporting document in the database"
      [] outcome = "error" -> "none"
      [] outcome = "found" -> "none"

\* The report after FindID: line 44 clears populated once there is a
\* session; not-found returns right there; every other outcome reaches line
\* 51. One(r) fills the report only when it found the document.
AfterFindID(r, coll, id, outcome) ==
    CASE outcome = "session" -> r
      [] outcome = "notfound" -> [r EXCEPT !.populated = FALSE]
      [] outcome = "error" -> [r EXCEPT !.populated = TRUE]
      [] outcome = "found" ->
           LET doc == CHOOSE x \in coll : x.id = id
           IN  [ID |-> doc.id, content |-> doc.content, populated |-> TRUE]

FindInit ==
    /\ reports \in ReportCollections
    /\ saveLog = <<>>
    /\ lastSaveErr = "none"
    /\ rep = FreshReport
    /\ lastFind = NoFind
    /\ FetchIdle
    /\ SchedIdle
    /\ WriteIdle
    /\ RequestIdle
    /\ PerfIdle
    /\ ConfigIdle
    /\ BuildIdle

\* CostReport.FindID, lines 37-55.
FindID(id) ==
    /\ \E outcome \in FindOutcomes(reports, id) :
          /\ rep' = AfterFindID(rep, reports, id, outcome)
          /\ lastFind' = [called |-> TRUE, id |-> id, outcome |-> outcome,
                          err |-> FindIDError(outcome)]
    /\ UNCHANGED <<reports, saveLog, lastSaveErr>>
    /\ UNCHANGED notStore

FindNext == \E id \in ReportIDs : FindID(id)

SpecFind == FindInit /\ [][FindNext]_vars

----------------------------------------------------------------------------
(* Claims about the report collection *)

DocsWith(id) == {x \in reports : x.id = id}

SavesOf(id) == {i \in 1 .. Len(saveLog) : saveLog[i].ID = id}

LastSaveOf(id) == saveLog[CHOOSE i \in SavesOf(id) : \A j \in SavesOf(id) : j <= i]

\* C7: upsert idempotence. After Saves of report values with the same ID, the
\* collection holds exactly one document under that ID, with the fields of the
\* last value saved; the documents under other IDs are those last saved there.
C7_UpsertIdempotent ==
    \A id \in ReportIDs :
        IF SavesOf(id) = {}
          THEN DocsWith(id) = {}
          ELSE DocsWith(id) = {Doc(LastSaveOf(id))}

\* C7 witness: two values with the same ID and different fields were saved
\* after a document under another ID, which is still there.
C7_Witness ==
    /\ Len(saveLog) = 3
    /\ saveLog[1].ID # saveLog[2].ID
    /\ saveLog[2].ID = saveLog[3].ID
    /\ saveLog[2].content # saveLog[3].content
    /\ reports = {Doc(saveLog[1]), Doc(saveLog[3])}

\* C8 (as claimed): partial reports are never persisted. Every document of
\* the collection was written by a Save of a populated report; Save of a
\* report that is not populated writes nothing.
C8_OnlyPopulatedSaved ==
    \A i \in 1 .. Len(saveLog) : saveLog[i].populated

\* C24 (as claimed): FindID reports every failed lookup. When the last
\* FindID met a store without the document, or a store that failed in any
\* other way, it returned a non-nil error and the report is not populated.
C24_FailedLookupReported ==
    lastFind.outcome \in {"notfound", "error"} =>
        (lastFind.err # "none" /\ ~rep.populated)

----------------------------------------------------------------------------
(* On-demand export: src/operations/cost.go, writeCostReport *)

\* Start times of the window: the day, the minute of the day and the second.
Starts == {[day |-> 1, minute |-> 9 * MinutesPerHour, second |-> 0],
           [day |-> 1, minute |-> 9 * MinutesPerHour, second |-> 30],
           [day |-> 1, minute |-> 9 * MinutesPerHour + 1, second |-> 0]}

\* Durations, in seconds: zero stands for a duration that was not given.
SecondsPerHour == MinutesPerHour * MinutesPerHour

Durations == {0, SecondsPerHour, 2 * SecondsPerHour}

\* conf.GetDuration(dur), line 164: the duration asked for, or the default
\* of the configuration if none was given.
ConfDuration == SecondsPerHour

GetDuration(dur) == IF dur = 0 THEN ConfDuration ELSE dur

\* cost.CreateReport(ctx, start, duration, conf), line 169: the window of the
\* report begins at start.
Begin(start) == start

\* time.Format("2006-01-02-15-04"): day, hour and minute; the second is
\* dropped.
\* (variant: the layout "2006-01-02")
FormatDay(t) == [day |-> t.day, hour |-> 0, minute |-> 0]

Format(t) == [day |-> t.day, hour |-> t.minute \div MinutesPerHour, minute |-> t.minute % MinutesPerHour]

\* time.Duration.String(): hours, minutes and seconds, as in "2h0m0s".
DurationString(d) ==
    [h |-> d \div SecondsPerHour,
     m |-> (d % SecondsPerHour) \div MinutesPerHour,
     s |-> d % MinutesPerHour]

\* Lines 174-176: the file name, from the report's Begin and the duration.
FileName(begin, duration) ==
    [date |-> Format(begin), dur |-> DurationString(duration), ext |-> "json"]

\* Lines 164-172: WriteToFile is reached only if neither conf.GetDuration
\* nor cost.CreateReport returned an error.
\* (variant: the error of CreateReport is not checked)
ExportReachedAfterDuration(failed) == failed # "Problem with duration"

ExportReached(failed) == failed \notin {"Problem with duration", "Problem generating report"}

\* cost.WriteToFile(conf, report, filename): the file of that name holds the
\* report.
WriteToFile(fs, name, report) == {f \in fs : f.name # name} \cup {[name |-> name, content |-> report]}

WriteInit ==
    /\ files = {}
    /\ lastWrite = NoWrite
    /\ RequestIdle
    /\ PerfIdle
    /\ FetchIdle
    /\ SchedIdle
    /\ StoreIdle
    /\ ConfigIdle
    /\ BuildIdle

\* writeCostReport, lines 163-183. failed names the step that returns an
\* error, if any; generated is the report's Generated stamp.
WriteCostReport(start, dur, failed, generated) ==
    /\ lastWrite' = [called |-> TRUE, failed |-> failed,
                     wrote |-> ExportReached(failed) /\ failed # "Problem printing report",
                     err |-> failed, before |-> files,
                     begin |-> Begin(start), duration |-> GetDuration(dur),
                     generated |-> generated]
    /\ IF ExportReached(failed) /\ failed # "Problem printing report"
         THEN files' = WriteToFile(files, FileName(Begin(start), GetDuration(dur)),
                                   [begin |-> Begin(start), duration |-> GetDuration(dur),
                                    generated |-> generated])
         ELSE UNCHANGED files
    /\ UNCHANGED notWrite

\* The runs of the write command; the Generated stamp of a run is later than
\* those of the runs before it.
WriteNext ==
    /\ lastWrite.generated < MaxStamp
    /\ \E start \in Starts, dur \in Durations,
          failed \in {"none", "Problem with duration", "Problem generating report",
                      "Problem printing report"} :
           WriteCostReport(start, dur, failed, lastWrite.generated + 1)

SpecWrite == WriteInit /\ [][WriteNext]_vars

----------------------------------------------------------------------------
(* Claims about the export *)

\* C9: a failed build exports nothing. If resolving the duration or
\* CreateReport fails, WriteToFile is not called, no file is created or
\* overwritten and writeCostReport returns an error; a file is written only
\* after a report was built.
C9_FailedBuildExportsNothing ==
    lastWrite.called =>
        /\ lastWrite.failed \in {"Problem with duration", "Problem generating report"}
              => (~lastWrite.wrote /\ files = lastWrite.before /\ lastWrite.err # "none")
        /\ (lastWrite.wrote \/ files # lastWrite.before)
              => lastWrite.failed \notin {"Problem with duration", "Problem generating report"}

\* C9 witness: CreateReport failed in a run whose file name is that of an
\* earlier export; the earlier file is as it was and an error came back.
C9_Witness ==
    /\ lastWrite.called
    /\ lastWrite.failed = "Problem generating report"
    /\ lastWrite.err # "none"
    /\ files # {}
    /\ files = lastWrite.before

\* The minute a time lies in.
MinuteOf(t) == [day |-> t.day, minute |-> t.minute]

\* The file a successful run has written.
Written == [name |-> FileName(lastWrite.begin, lastWrite.duration),
            content |-> [begin |-> lastWrite.begin, duration |-> lastWrite.duration,
                         generated |-> lastWrite.generated]]

\* C17: the export file name is a function of the window. A run that exports
\* writes the file named after its report's Begin (to the minute) and its
\* duration; a file written earlier has that name exactly if its window
\* began in the same minute and had the same duration, and then it is
\* replaced; all other files stay as they were.
C17_FileNameOfWindow ==
    lastWrite.wrote =>
        /\ Written.name.ext = "json"
        /\ Written.name.date.day = lastWrite.begin.day
        /\ Written.name.date.hour * MinutesPerHour + Written.name.date.minute = lastWrite.begin.minute
        /\ \A f \in lastWrite.before :
              (f.name = Written.name) <=>
                  /\ MinuteOf(f.content.begin) = MinuteOf(lastWrite.begin)
                  /\ f.content.duration = lastWrite.duration
        /\ files = {f \in lastWrite.before : f.name # Written.name} \cup {Written}

\* C17 witness: the run overwrote the file of an earlier run with the same
\* start and the same duration, next to the files of a run that began a
\* minute apart and of a run with another duration.
C17_Witness ==
    /\ lastWrite.wrote
    /\ \E f \in lastWrite.before :
          /\ f.content.begin = lastWrite.begin
          /\ f.content.duration = lastWrite.duration
          /\ f.content.generated # lastWrite.generated
          /\ f \notin files
    /\ \E f \in files :
          f.content.begin.day = lastWrite.begin.day /\ f.content.begin.minute # lastWrite.begin.minute
    /\ \E f \in files :
          f.content.begin = lastWrite.begin /\ f.content.duration # lastWrite.duration

----------------------------------------------------------------------------
(* Application configuration: src/model/config.go, CedarConfig *)

\* Line 15.
cedarConfigurationID == "cedar-system-configuration"

\* What the ID field of a CedarConfig value can hold before Save.
ConfigIDs == {"", "other-id", cedarConfigurationID}

\* The remaining exported fields of a CedarConfig.
ConfContents == {"zero", "A", "B"}

CedarConfigs == [ID : ConfigIDs, content : ConfContents, populated : BOOLEAN]

\* Lines 86 and 94: Save sets c.ID to the fixed ID and upserts under it.
\* (variant: the ID the value came with is kept and used)
OwnID(c) == c.ID

SavedID(c) == cedarConfigurationID

\* The document Save sends: c after line 86.
ConfDoc(c) == [id |-> SavedID(c), content |-> c.content]

\* Line 82: Save refuses a value whose populated flag is not set.
\* (variant: Save without the check)
NeverRefused(c) == FALSE

Refused(c) == ~c.populated

ConfigInit ==
    /\ configs = {}
    /\ confLog = <<>>
    /\ lastConfErr = "none"
    /\ conf = FreshConfig
    /\ confTrace = NoTrace
    /\ FetchIdle
    /\ SchedIdle
    /\ StoreIdle
    /\ WriteIdle
    /\ RequestIdle
    /\ PerfIdle
    /\ BuildIdle

\* CedarConfig.Save, lines 79-103: a value that is not populated is refused
\* (line 82); the session may fail (line 89) and the upsert may fail.
ConfigSave(c) ==
    /\ Len(confLog) < MaxSaves
    /\ IF Refused(c)
         THEN /\ lastConfErr' = "cannot save a non-populated app configuration"
              /\ UNCHANGED <<configs, confLog>>
         ELSE \E err \in {"none", "session", "problem saving application configuration"} :
                /\ lastConfErr' = err
                /\ IF err = "none"
                     THEN /\ configs' = UpsertId(configs, SavedID(c), ConfDoc(c))
                          /\ confLog' = Append(confLog, c)
                     ELSE UNCHANGED <<configs, confLog>>
    /\ UNCHANGED <<conf, confTrace>>
    /\ UNCHANGED notConfig

ConfigNext == \E c \in CedarConfigs : ConfigSave(c)

SpecConfig == ConfigInit /\ [][ConfigNext]_vars

\* CedarConfig.IsNil, line 56.
ConfigIsNil(c) == ~c.populated

\* The collection as earlier Saves can have left it: empty, or the one
\* document under the fixed ID.
ConfigCollections ==
    {{}} \cup {{[id |-> cedarConfigurationID, content |-> x]} : x \in ConfContents}

\* What can happen to Find: no session (line 59), the store has no
\* configuration document (line 67), the store fails otherwise (line 69), or
\* the document is loaded into the value.
ConfFindOutcomes(coll) ==
    {"session", "error"} \cup
    (IF \E x \in coll : x.id = cedarConfigurationID THEN {"found"} ELSE {"notfound"})

\* What Find returns, lines 60, 68, 70 and 76.
ConfFindError(outcome) ==
    CASE outcome = "session" -> "session"
      [] outcome = "notfound" -> "could not find application configuration in the database"
      [] outcome = "error" -> "problem finding app config document"
      [] outcome = "found" -> "none"

\* Line 64: once there is a session, Find clears the flag before the lookup.
\* (variant: the flag is left as the last Find set it)
KeepPopulated(c) == c

ClearPopulated(c) == [c EXCEPT !.populated = FALSE]

\* The value after Find, lines 58-77: only a lookup that loaded the
\* document reaches line 73.
AfterFind(c, coll, outcome) ==
    CASE outcome = "session" -> c
      [] outcome \in {"notfound", "error"} -> ClearPopulated(c)
      [] outcome = "found" ->
           LET doc == CHOOSE x \in coll : x.id = cedarConfigurationID
           IN  [ID |-> doc.id, content |-> doc.content, populated |-> TRUE]

LifeInit ==
    /\ configs \in ConfigCollections
    /\ confLog = <<>>
    /\ lastConfErr = "none"
    /\ conf = FreshConfig
    /\ confTrace = NoTrace
    /\ FetchIdle
    /\ SchedIdle
    /\ StoreIdle
    /\ WriteIdle
    /\ RequestIdle
    /\ PerfIdle
    /\ BuildIdle

\* LoadCedarConfig, lines 105-117: a new value read from a YAML file, which
\* may set the id; populated is set (line 114). A file that cannot be read
\* gives no value: the one held so far stays.
LoadCedarConfig ==
    /\ \/ /\ \E id \in {"", "other-id"}, content \in ConfContents :
                conf' = [ID |-> id, content |-> content, populated |-> TRUE]
          /\ confTrace' = [op |-> "load", err |-> "none", origin |-> "file",
                           reached |-> "none", before |-> configs]
       \/ /\ confTrace' = [confTrace EXCEPT !.op = "load", !.err = "read",
                                             !.before = configs]
          /\ UNCHANGED conf
    /\ UNCHANGED <<configs, confLog, lastConfErr>>
    /\ UNCHANGED notConfig

\* CedarConfig.Find on the value held, lines 57-77. The trace keeps how the
\* value came to its state: "found" after a Find that loaded the document,
\* "lost" once a later Find reached the store and failed.
Find ==
    /\ \E outcome \in ConfFindOutcomes(configs) :
          /\ conf' = AfterFind(conf, configs, outcome)
          /\ confTrace' =
                [op |-> "find",
                 err |-> ConfFindError(outcome),
                 origin |-> CASE outcome = "session" -> confTrace.origin
                              [] outcome = "found" -> "found"
                              [] OTHER -> IF confTrace.origin = "fresh"
                                            THEN "fresh" ELSE "lost",
                 reached |-> CASE outcome = "session" -> confTrace.reached
                               [] outcome = "found" -> "nil"
                               [] OTHER -> "error",
                 before |-> configs]
    /\ UNCHANGED <<configs, confLog, lastConfErr>>
    /\ UNCHANGED notConfig

\* CedarConfig.Save on the value held, lines 79-103.
ConfSave ==
    /\ IF Refused(conf)
         THEN /\ lastConfErr' = "cannot save a non-populated app configuration"
              /\ UNCHANGED <<configs, conf>>
         ELSE /\ conf' = [conf EXCEPT !.ID = SavedID(conf)]
              /\ \E err \in {"none", "session", "problem saving application configuration"} :
                    /\ lastConfErr' = err
                    /\ IF err = "none"
                         THEN configs' = UpsertId(configs, SavedID(conf), ConfDoc(conf))
                         ELSE UNCHANGED configs
    /\ confTrace' = [confTrace EXCEPT !.op = "save", !.err = lastConfErr',
                                      !.before = configs]
    /\ UNCHANGED confLog
    /\ UNCHANGED notConfig

LifeNext ==
    \/ LoadCedarConfig
    \/ Find
    \/ ConfSave

SpecLife == LifeInit /\ [][LifeNext]_vars

----------------------------------------------------------------------------
(* Claims about the application configuration *)

\* C18: a single configuration document under the fixed key. After
\* successful Saves of configuration values, whatever their ID fields held,
\* the collection holds exactly one document: it is stored under
\* cedarConfigurationID and has the content of the value saved last. Before
\* the first successful Save the collection is empty.
C18_SingleConfigDocument ==
    IF confLog = <<>>
      THEN configs = {}
      ELSE configs = {[id |-> cedarConfigurationID,
                       content |-> confLog[Len(confLog)].content]}

\* C18 witness: three values were saved whose ID fields held three different
\* things and whose contents differ; the last one is in the store.
C18_Witness ==
    /\ Len(confLog) = 3
    /\ {confLog[i].ID : i \in 1 .. 3} = ConfigIDs
    /\ confLog[2].content # confLog[3].content
    /\ Cardinality(configs) = 1

\* C25 (as claimed): IsNil means not populated. For the CostReport held, as
\* for the CedarConfig held, IsNil returns true exactly when the value is not
\* populated: for a fresh value and after a lookup that did not load the
\* document, and false after a lookup that loaded it.
C25_IsNilMeansNotPopulated ==
    /\ ReportIsNil(rep) = ~rep.populated
    /\ ConfigIsNil(conf) = ~conf.populated

C27_PopulatedTracksFind ==
    /\ confTrace.reached # "none" => (conf.populated <=> confTrace.reached = "nil")
    /\ (confTrace.reached = "none" /\ confTrace.origin = "fresh") => ~conf.populated
    /\ (confTrace.op = "find" /\ confTrace.err \notin {"none", "session"}) =>
          ~conf.populated

\* C27 witness: a Find loaded the document into the value, and the Find
\* after it met a store error.
C27_Witness ==
    /\ confTrace.op = "find"
    /\ confTrace.origin = "lost"
    /\ confTrace.err = "problem finding app config document"
    /\ conf.ID = cedarConfigurationID
    /\ conf.content # "zero"
    /\ ~conf.populated

----------------------------------------------------------------------------
(* Cloud billing trees: src/unnamed/part_000, CloudProvider, CloudAccount, *)
(* AccountService                                                          *)

ProviderNames == {"aws", "gce"}

AccountNames == {"kernel", "build"}

ServiceNames == {"ec2", "ebs"}

\* AccountService.Cost, lines 171-175: whole amounts, small enough for
\* float32 addition to be exact.
ServiceCosts == 0 .. MaxCost

\* CloudAccount.Services, lines 160-163: the services of an account, by
\* name, each with its Cost.
ServiceMaps == UNION {[S -> ServiceCosts] : S \in SUBSET ServiceNames}

\* CloudProvider.Accounts, lines 147-151: the accounts of a provider, by name.
AccountMaps == UNION {[A -> ServiceMaps] : A \in SUBSET AccountNames}

RECURSIVE SumOver(_, _)
SumOver(f, S) ==
    IF S = {} THEN 0
    ELSE LET x == CHOOSE y \in S : TRUE IN f[x] + SumOver(f, S \ {x})

\* What an account contributes: the sum of the costs of its services.
\* (variant: the services are not added up, the dearest one counts)
DearestService(services) ==
    IF DOMAIN services = {} THEN 0
    ELSE CHOOSE c \in {services[x] : x \in DOMAIN services} :
             \A x \in DOMAIN services : services[x] <= c

AccountCost(services) == SumOver(services, DOMAIN services)

\* CloudProvider.Cost as the billing collector prices it: the contributions
\* of the provider's accounts, added up.
ProviderCost(accounts) ==
    SumOver([a \in DOMAIN accounts |-> AccountCost(accounts[a])], DOMAIN accounts)

\* A priced CloudProvider.
CloudProvider(name, accounts) ==
    [Name |-> name, Accounts |-> accounts, Cost |-> ProviderCost(accounts)]

BuildInit ==
    /\ bpc = "start"
    /\ billing = {}
    /\ providers = {}
    /\ FetchIdle
    /\ SchedIdle
    /\ StoreIdle
    /\ WriteIdle
    /\ RequestIdle
    /\ PerfIdle
    /\ ConfigIdle

\* The billing collector returns the priced trees of some providers.
CollectBilling ==
    /\ bpc = "start"
    /\ \E P \in SUBSET ProviderNames :
          \E accounts \in [P -> AccountMaps] :
              billing' = {CloudProvider(p, accounts[p]) : p \in P}
    /\ bpc' = "collected"
    /\ UNCHANGED providers
    /\ UNCHANGED notBuild

\* The billing collector fails: no report is built.
CollectBillingFails ==
    /\ bpc = "start"
    /\ bpc' = "failed"
    /\ UNCHANGED <<billing, providers>>
    /\ UNCHANGED notBuild

\* The builder puts the trees into CostReport.Providers (line 25) as they are.
AssembleReport ==
    /\ bpc = "collected"
    /\ providers' = billing
    /\ bpc' = "built"
    /\ UNCHANGED billing
    /\ UNCHANGED notBuild

BuildNext ==
    \/ CollectBilling
    \/ CollectBillingFails
    \/ AssembleReport

SpecBuild == BuildInit /\ [][BuildNext]_vars

----------------------------------------------------------------------------
(* Claims about the cloud billing trees *)

\* The (account, service) pairs of a provider.
ServicePairs(p) ==
    {<<a, x>> : a \in DOMAIN p.Accounts, x \in ServiceNames} \cap
    {pair \in AccountNames \X ServiceNames : pair[2] \in DOMAIN p.Accounts[pair[1]]}

RECURSIVE SumOfPairs(_, _)
SumOfPairs(p, pairs) ==
    IF pairs = {} THEN 0
    ELSE LET q == CHOOSE y \in pairs : TRUE
         IN  p.Accounts[q[1]][q[2]] + SumOfPairs(p, pairs \ {q})

\* C20: cost tree consistency. In every built report, the Cost of each
\* CloudProvider equals the sum of AccountService.Cost over every service of
\* every account of that provider.
C20_CostTreeConsistent ==
    bpc = "built" =>
        \A p \in providers : p.Cost = SumOfPairs(p, ServicePairs(p))

\* C20 witness: a built report with a provider of two accounts with two
\* services each, all of different cost from their neighbour, and a provider
\* without accounts.
C20_Witness ==
    /\ bpc = "built"
    /\ \E p \in providers :
          /\ DOMAIN p.Accounts = AccountNames
          /\ \A a \in AccountNames : DOMAIN p.Accounts[a] = ServiceNames
          /\ \A a \in AccountNames : p.Accounts[a]["ec2"] # p.Accounts[a]["ebs"]
          /\ p.Cost > MaxCost
    /\ \E p \in providers : DOMAIN p.Accounts = {}

----------------------------------------------------------------------------
(* Cost API requests: src/evergreen/distros.go, GetEvergreenDistrosData and *)
(* GetDistroCost                                                            *)

\* The window durations asked for, in seconds: whole hours, minutes and
\* seconds, among them 2h, 10m, 30s and 1m30s (90s).
WindowHours == {0, 2, 10}

WindowMinutes == {0, 1, 10}

WindowSeconds == {0, 5, 30}

Windows ==
    {h * SecondsPerHour + m * MinutesPerHour + x :
        h \in WindowHours, m \in WindowMinutes, x \in WindowSeconds} \ {0}

\* A string is the sequence of its characters.
Digits == <<"0", "1", "2", "3", "4", "5", "6", "7", "8", "9">>

DigitValue(c) == (CHOOSE i \in 1 .. Len(Digits) : Digits[i] = c) - 1

IsDigit(c) == \E i \in 1 .. Len(Digits) : Digits[i] = c

\* The decimal numeral of n.
RECURSIVE Itoa(_)
Itoa(n) ==
    IF n < Len(Digits) THEN <<Digits[n + 1]>>
    ELSE Itoa(n \div Len(Digits)) \o <<Digits[(n % Len(Digits)) + 1]>>

\* duration.String(), line 132, for whole seconds from one second on: the
\* seconds always, the minutes if the duration reaches a minute, the hours
\* if it reaches an hour, as in "2h0m0s", "10m0s", "1m30s", "30s".
DurationText(d) ==
    LET h == d \div SecondsPerHour
        m == (d % SecondsPerHour) \div MinutesPerHour
        x == d % MinutesPerHour
    IN  (IF h > 0 THEN Itoa(h) \o <<"h">> ELSE <<>>) \o
        (IF h > 0 \/ m > 0 THEN Itoa(m) \o <<"m">> ELSE <<>>) \o
        Itoa(x) \o <<"s">>

\* strings.TrimRight(str, cutset), line 132: every trailing character that
\* is in the cutset is removed, one after the other.
RECURSIVE TrimRight(_, _)
TrimRight(str, cutset) ==
    IF str # <<>> /\ str[Len(str)] \in cutset
      THEN TrimRight(SubSeq(str, 1, Len(str) - 1), cutset)
      ELSE str

\* The cutset "0s" of line 132.
Cutset == {"0", "s"}

\* The length of time a duration parameter denotes, in seconds, read as a Go
\* duration string: a sequence of decimal numbers with a unit each. A number
\* without unit, a unit without number and the empty string denote nothing.
NoDuration == 0 - 1

UnitSeconds(c) ==
    CASE c = "h" -> SecondsPerHour
      [] c = "m" -> MinutesPerHour
      [] c = "s" -> 1
      [] OTHER -> 0

RECURSIVE ParseFrom(_, _, _, _)
ParseFrom(str, total, number, any) ==
    IF str = <<>>
      THEN IF any THEN NoDuration ELSE total
    ELSE IF IsDigit(Head(str))
      THEN ParseFrom(Tail(str), total, number * Len(Digits) + DigitValue(Head(str)), TRUE)
    ELSE IF any /\ UnitSeconds(Head(str)) > 0
      THEN ParseFrom(Tail(str), total + number * UnitSeconds(Head(str)), 0, FALSE)
    ELSE NoDuration

ParseDuration(str) == IF str = <<>> THEN NoDuration ELSE ParseFrom(str, 0, 0, FALSE)

RequestInit ==
    /\ window \in Windows
    /\ rpc = "start"
    /\ durParam = <<>>
    /\ requests = {}
    /\ PerfIdle
    /\ FetchIdle
    /\ SchedIdle
    /\ StoreIdle
    /\ WriteIdle
    /\ ConfigIdle
    /\ BuildIdle

\* GetEvergreenDistrosData, line 132.
FormatDuration ==
    /\ rpc = "start"
    /\ durParam' = TrimRight(DurationText(window), Cutset)
    /\ rpc' = "formatted"
    /\ UNCHANGED <<window, requests>>
    /\ UNCHANGED notRequest

\* GetDistroCost, line 49: the lookup of distro d puts dur, as passed down
\* through getDistroCosts (lines 139 and 100), into the request.
SendRequest(d) ==
    /\ rpc = "formatted"
    /\ [distro |-> d, duration |-> durParam] \notin requests
    /\ requests' = requests \cup {[distro |-> d, duration |-> durParam]}
    /\ UNCHANGED <<window, rpc, durParam>>
    /\ UNCHANGED notRequest

RequestNext ==
    \/ FormatDuration
    \/ \E d \in 1 .. MaxDistros : SendRequest(d)

SpecRequest == RequestInit /\ [][RequestNext]_vars

----------------------------------------------------------------------------
(* Claims about the cost API requests *)

\* C28 (as claimed): the duration sent to the cost API denotes the requested
\* window. In every per-distro lookup request, the duration parameter denotes
\* the same length of time as the duration GetEvergreenDistrosData was
\* called with.
C28_DurationDenotesWindow ==
    \A r \in requests : ParseDuration(r.duration) = window

----------------------------------------------------------------------------
(* Performance-metrics service: src/rpc/internal/service_test.go. The       *)
(* handlers are modelled from what TestCreateMetricSeries and               *)
(* TestAttachResultData expect of them.                                     *)

\* The ResultID of a request: none given (the Id field is nil), or the
\* fields of one of two results.
NoResultID == "nil"

ResultInfos == {"infoA", "infoB"}

\* model.PerformanceResultInfo.ID(): the ID string derived from the fields;
\* different fields give different IDs.
ResultIDOf(info) == <<"id", info>>

ResultIDs == {ResultIDOf(info) : info \in ResultInfos}

\* The answer to a successful call, lines 126-132 and 193-196.
MetricsResponse(id) == [Id |-> id, Success |-> TRUE]

\* Attach looks the result up under its ID (the cases ...DoesNotExist,
\* lines 218-224, 240-246 and 271-277).
\* (variant: Attach creates what it does not find)
FoundOrMade(results, id) == TRUE

Exists(results, id) == id \in DOMAIN results

\* The stored result once data of one kind was attached to it.
Attached(results, id, op) ==
    [x \in DOMAIN results \cup {id} |->
        IF x = id
          THEN (IF x \in DOMAIN results THEN results[x] ELSE {}) \cup {op}
          ELSE results[x]]

\* createEnv(mock), lines 83-95: the real environment, or MockEnv, whose
\* GetSession always returns an error (lines 47-49).
PerfInit ==
    /\ sessionOk \in BOOLEAN
    /\ perfResults = <<>>
    /\ created = {}
    /\ lastRpc = NoRpc
    /\ FetchIdle
    /\ SchedIdle
    /\ StoreIdle
    /\ WriteIdle
    /\ ConfigIdle
    /\ BuildIdle
    /\ RequestIdle

\* CreateMetricSeries as TestCreateMetricSeries expects it, lines 117-146:
\* data without Id is an error (TestInvalidData), so is an environment
\* without session (TestInvalidEnv); otherwise the result is stored and the
\* response carries its ID (TestValidData).
CreateMetricSeries(info) ==
    /\ IF info = NoResultID \/ ~sessionOk
         THEN /\ lastRpc' = [op |-> "create", id |-> "", resp |-> NoResponse, err |-> TRUE]
              /\ UNCHANGED <<perfResults, created>>
         ELSE /\ perfResults' = perfResults @@ (ResultIDOf(info) :> {})
              /\ created' = created \cup {ResultIDOf(info)}
              /\ lastRpc' = [op |-> "create", id |-> ResultIDOf(info),
                             resp |-> MetricsResponse(ResultIDOf(info)), err |-> FALSE]
    /\ UNCHANGED sessionOk
    /\ UNCHANGED notPerf

\* What the three Attach calls have in common, lines 182-277: an error when
\* there is no session or no result under the ID (the ...DoesNotExist
\* cases), otherwise the data is attached to the result and the response
\* carries the ID.
Attach(op, id) ==
    /\ IF sessionOk /\ Exists(perfResults, id)
         THEN /\ perfResults' = Attached(perfResults, id, op)
              /\ lastRpc' = [op |-> op, id |-> id, resp |-> MetricsResponse(id), err |-> FALSE]
         ELSE /\ lastRpc' = [op |-> op, id |-> id, resp |-> NoResponse, err |-> TRUE]
              /\ UNCHANGED perfResults
    /\ UNCHANGED <<sessionOk, created>>
    /\ UNCHANGED notPerf

\* AttachResultData, lines 183-224: the request carries a ResultID; without
\* one it is an error (TestAttachResultDataInvalidData, lines 213-217).
AttachResultData(info) ==
    IF info = NoResultID
      THEN /\ lastRpc' = [op |-> "resultData", id |-> "", resp |-> NoResponse, err |-> TRUE]
           /\ UNCHANGED <<sessionOk, perfResults, created>>
           /\ UNCHANGED notPerf
      ELSE Attach("resultData", ResultIDOf(info))

\* AttachArtifacts, lines 225-246, and AttachRollups, lines 247-277: the
\* request carries the ID string.
AttachArtifacts(id) == Attach("artifacts", id)

AttachRollups(id) == Attach("rollups", id)

PerfNext ==
    \/ \E info \in ResultInfos \cup {NoResultID} : CreateMetricSeries(info)
    \/ \E info \in ResultInfos \cup {NoResultID} : AttachResultData(info)
    \/ \E id \in ResultIDs : AttachArtifacts(id)
    \/ \E id \in ResultIDs : AttachRollups(id)

SpecPerf == PerfInit /\ [][PerfNext]_vars

----------------------------------------------------------------------------
(* Claims about the performance-metrics service *)

AttachOps == {"resultData", "artifacts", "rollups"}

\* C21: Attach requires a prior create. After AttachResultData,
\* AttachArtifacts or AttachRollups for a result ID, the client has an error
\* and no response if CreateMetricSeries had not created a result with that
\* ID before, and the response with Success = true and that ID if it had.
\* After CreateMetricSeries without result ID, or in an environment without
\* store session, the client has an error and no response.
C21_AttachRequiresCreate ==
    /\ (lastRpc.op \in AttachOps /\ lastRpc.id # "") =>
          IF lastRpc.id \in created
            THEN lastRpc.resp = [Id |-> lastRpc.id, Success |-> TRUE] /\ ~lastRpc.err
            ELSE lastRpc.resp = NoResponse /\ lastRpc.err
    /\ (lastRpc.op = "create" /\ (lastRpc.id = "" \/ ~sessionOk)) =>
          (lastRpc.err /\ lastRpc.resp = NoResponse)

\* C21 witness: rollups were attached to a result created before, while
\* the other result was never created.
C21_Witness ==
    /\ lastRpc.op = "rollups"
    /\ lastRpc.id \in created
    /\ lastRpc.resp.Success
    /\ created # ResultIDs

====
